---- MODULE Spec2Model ----
(***************************************************************************)
(* The WaniKani sync orchestrator (api/sync/WanikaniUserSyncerV2.py) over  *)
(* the record store of kw_webapp/models.py.  Each process constructs one   *)
(* WanikaniUserSyncerV2 and runs sync_with_wk once; processes interleave   *)
(* at the remote calls and at the two halves of get_or_create (Spec,       *)
(* SpecLegacy).  The scheduling methods of one UserSpecific record are     *)
(* called in any order under SpecSched, and the guarded reconciliations of *)
(* one Vocabulary and one UserSpecific against remote snapshots under      *)
(* SpecReconcile.                                                          *)
(*                                                                         *)
(* The managers UserSpecific.objects / Vocabulary.objects are taken to     *)
(* resolve to the plain record store, as models.py:123 itself uses them.   *)
(***************************************************************************)
EXTENDS Integers, Sequences, FiniteSets, TLC

NumSubjects == 2
MaxLevel == 4
NoLevel == 0
\* answers given to one review record, and the clock ticks it lives through
MaxAnswers == 10
MaxTicks == 3
\* minutes the clock advances in one tick
TickLen == 20
\* a nullable DateTimeField holding None
Null == -1
\* the remote's data_updated_at stamps run over 1..MaxStamp
MaxStamp == 2

Users == {"A", "B"}
Procs == {"p1", "p2"}
First == "p1"
Subjects == 1..NumSubjects
Levels == 1..MaxLevel
LevelSamples == {1, MaxLevel}

Invalid == "InvalidWanikaniApiKeyException"
AttributeError == "AttributeError"
TypeError == "TypeError"
ZeroDivisionError == "ZeroDivisionError"

VARIABLES
    profile, unlocked, reviews, nextId, vocabulary,
    remote, remoteStudy, remoteLevel, clock,
    pc, puser, pfull, mem, levels, batch, idx, new_review_count,
    calls, outcome, ret, exc,
    created, startReviews, rejectedAt, dupAt, missAt, raced, qs, follows,
    rec, stored, now, op, err,
    voc, vocRow, readings, parts, synonyms, nextReading, writes, snap, rc

dbVars == <<profile, unlocked, reviews, nextId, vocabulary>>
envVars == <<remote, remoteStudy, remoteLevel>>
ctlVars == <<pc, puser, pfull, mem, levels, batch, idx, new_review_count,
             calls, outcome, ret, exc>>
histVars == <<created, startReviews, rejectedAt, dupAt, missAt, raced, qs, follows>>
\* one UserSpecific object in memory, its row, timezone.now() and the last call on it
\* one Vocabulary object in memory, its row, its Reading rows and part-of-speech
\* links, the MeaningSynonym rows of the review record, the next Reading id, the
\* reconciliations written so far and the snapshot handed to the last one; rc is
\* where each of two concurrent Vocabulary.reconcile calls stands, with its object,
\* its snapshot and the kanas it last read
wkVars == <<voc, vocRow, readings, parts, synonyms, nextReading, writes, snap, rc>>
\* err is the exception the last call on the record ended with
recVars == <<rec, stored, now, op, err, wkVars>>
vars == <<dbVars, envVars, clock, ctlVars, histVars, recVars>>

(* ---------------------------------------------------------------------- *)
(* Python values returned to the caller.                                   *)
(* ---------------------------------------------------------------------- *)
PyInt(n) == [kind |-> "int", items |-> <<n>>]
PyTuple(s) == [kind |-> "tuple", items |-> s]
\* a Python tuple whose first element is the bool ok and whose others are rest
PyResult(ok, rest) == [ok |-> ok, rest |-> rest]
NoResult == PyResult(FALSE, <<>>)

(* ---------------------------------------------------------------------- *)
(* Record store.                                                           *)
(* ---------------------------------------------------------------------- *)
\* the level of the vocabulary a subject id names, on the remote side
SubjectLevel(s) == s

\* UserSpecific rows of one (vocabulary, user) pair
ReviewsOf(u, s) == {r \in reviews : r.user = u /\ r.vocabulary = s}

\* UserSpecific.objects.filter(vocabulary__wk_subject_id=...) of line 139
StudyMaterialQuery(u, s) == {r \in reviews : r.vocabulary = s}

\* the row a create() inserts: the field defaults of the model
NewReview(id, u, s) ==
    [id |-> id, user |-> u, vocabulary |-> s,
     needs_review |-> TRUE, next_review_date |-> clock, streak |-> 0,
     wk_assignment_last_modified |-> 0]

\* a row as it stands after earlier use
OldReview(id, u, s) ==
    [id |-> id, user |-> u, vocabulary |-> s,
     needs_review |-> FALSE, next_review_date |-> 0, streak |-> 2,
     wk_assignment_last_modified |-> 0]

\* a store without the constraint: an insert never fails
NoUniqueConstraint(u, s) == FALSE

\* the unique_together ("vocabulary", "user") constraint
UniqueViolation(u, s) == ReviewsOf(u, s) # {}

\* the attributes a UserSpecific instance answers to
UserSpecificAttrs ==
    {"is_assignment_out_of_date", "is_study_material_out_of_date",
     "reconcile_assignment", "reconcile_study_material", "save",
     "answered_correctly", "answered_incorrectly", "set_criticality",
     "set_next_review_time", "bring_review_out_of_vacation", "reset"}

\* the attributes a QuerySet answers to, as far as the syncer asks
QuerySetAttrs == {"filter", "get", "get_or_create", "delete", "update"}

\* levels = [l for l in range(level - 2, level + 1) if l in unlocked_levels_list()]
RecentLevels(level, unl) == {l \in (level - 2)..level : l \in unl}

\* client.assignments(subject_types="vocabulary", levels=..., fetch_all=True)
AssignmentsFor(filtered, lv) ==
    IF filtered THEN SelectSeq(remote, LAMBDA s : SubjectLevel(s) \in lv)
    ELSE remote

Range(s) == {s[i] : i \in 1..Len(s)}

(* ---------------------------------------------------------------------- *)
(* Attribute lookup on the objects the syncer holds.                       *)
(* ---------------------------------------------------------------------- *)
AttrsOf(kind) ==
    CASE kind = "UserSpecific" -> UserSpecificAttrs
      [] kind = "QuerySet" -> QuerySetAttrs
      [] OTHER -> {}

\* obj.attr(...): "ok" when the attribute exists, else the exception raised
CallOn(kind, attr) == IF attr \in AttrsOf(kind) THEN "ok" ELSE AttributeError

(* ---------------------------------------------------------------------- *)
(* The review record (UserSpecific) and its scheduling.                    *)
(* kw_webapp/constants.py is not among the sources; the five values that   *)
(* models.py reads from it are set here to values that agree with the      *)
(* specification's scenarios (a double-penalty tier at streak 7 below the  *)
(* burned tier, an hours table that ends before the burned tier).          *)
(* Time is counted in minutes.                                             *)
(* ---------------------------------------------------------------------- *)
HourLen == 60
DayLen == 24 * HourLen

\* constants.WANIKANI_SRS_LEVELS[WkSrsLevel.BURNED.name][0]
BurnedStreak == 9

\* constants.SRS_TIMES, streak -> hours until the next review
SRS_TIMES ==
    [st \in 0..(BurnedStreak - 1) |->
        CASE st \in {0, 1} -> 4
          [] st = 2 -> 8
          [] st = 3 -> 24
          [] st = 4 -> 72
          [] st = 5 -> 168
          [] st = 6 -> 336
          [] st = 7 -> 720
          [] OTHER -> 2880]

\* constants.MINIMUM_ATTEMPT_COUNT_FOR_CRITICALITY
MINIMUM_ATTEMPT_COUNT_FOR_CRITICALITY == 4

\* constants.CRITICALITY_THRESHOLD, as numerator and denominator
CRITICALITY_THRESHOLD == <<3, 4>>

\* constants.REVIEW_ROUNDING_TIME, in minutes
REVIEW_ROUNDING_TIME == 15

\* the field defaults of UserSpecific, for an object made at time t
DefaultUserSpecific(t) ==
    [correct |-> 0, incorrect |-> 0, streak |-> 0,
     last_studied |-> Null, needs_review |-> TRUE, next_review_date |-> t,
     burned |-> FALSE, critical |-> FALSE,
     wanikani_srs |-> "unknown", wanikani_srs_numeric |-> 0,
     wanikani_burned |-> FALSE,
     wk_assignment_last_modified |-> Null,
     wk_study_materials_last_modified |-> Null,
     meaning_note |-> "", reading_note |-> ""]

_can_be_critical(r) ==
    r.correct + r.incorrect >= MINIMUM_ATTEMPT_COUNT_FOR_CRITICALITY

\* float(incorrect) / float(correct + incorrect) >= threshold; the division is
\* reached only behind _can_be_critical
_breaks_threshold(r) ==
    r.incorrect * CRITICALITY_THRESHOLD[2]
        >= CRITICALITY_THRESHOLD[1] * (r.correct + r.incorrect)

\* is_critical with the ratio taken before the attempt count is looked at
is_critical_unguarded(r) ==
    IF r.correct + r.incorrect = 0 THEN ZeroDivisionError
    ELSE IF _breaks_threshold(r) THEN "True"
    ELSE "False"

\* "self._can_be_critical() and self._breaks_threshold()": what the evaluation
\* gives, the float division raising on a zero denominator
is_critical_result(r) ==
    IF ~_can_be_critical(r) THEN "False"
    ELSE IF r.correct + r.incorrect = 0 THEN ZeroDivisionError
    ELSE IF _breaks_threshold(r) THEN "True"
    ELSE "False"

is_critical(r) == is_critical_result(r) = "True"

\* what a call that ends in set_criticality() on r ends with
CriticalityError(r) ==
    IF is_critical_result(r) = ZeroDivisionError THEN ZeroDivisionError ELSE "none"

\* set_criticality: nothing is assigned when is_critical raises
set_criticality(r) ==
    IF CriticalityError(r) = "none" THEN [r EXCEPT !.critical = is_critical(r)] ELSE r

\* _round_next_review_date on the date d: seconds is the time of day of d
_round_next_review_date(d) ==
    LET round_to == REVIEW_ROUNDING_TIME
        seconds == d % DayLen
        rounding == ((seconds + round_to) \div round_to) * round_to
    IN  d + (rounding - seconds)

\* the body of set_next_review_time_based_on_last_studied under the table guard
set_next_review_time_from_last_studied(r, t) ==
    IF r.streak \notin DOMAIN SRS_TIMES
    THEN [r EXCEPT !.next_review_date = Null]
    ELSE [r EXCEPT !.next_review_date =
              _round_next_review_date(r.last_studied + HourLen * SRS_TIMES[r.streak])]

\* set_next_review_time at time t, up to its save()
set_next_review_time(r, t) ==
    IF r.streak \notin DOMAIN SRS_TIMES
    THEN [r EXCEPT !.next_review_date = Null]
    ELSE [r EXCEPT !.next_review_date =
              _round_next_review_date(t + HourLen * SRS_TIMES[r.streak])]

\* the demotion of answered_incorrectly with every streak above 1 dropping by one
DemoteByOne(streak) == IF streak > 1 THEN streak - 1 ELSE streak

\* a demotion that lets a record fall back to the lesson tier
DemoteToLesson(streak) ==
    IF streak = 7 THEN streak - 2
    ELSE IF streak > 0 THEN streak - 1
    ELSE streak

\* the demotion of answered_incorrectly, before max(0, .)
Demote(streak) ==
    IF streak = 7 THEN streak - 2
    ELSE IF streak > 1 THEN streak - 1
    ELSE streak

Max(a, b) == IF a >= b THEN a ELSE b

\* a promotion that happens on every correct answer, first try or not
PromoteRegardless(r, first_try) ==
    [r EXCEPT !.correct = IF r.streak = 0 THEN @ ELSE @ + 1,
              !.streak = @ + 1,
              !.burned = @ \/ (r.streak # 0 /\ r.streak + 1 >= BurnedStreak)]

\* a promotion that never marks the record burned
PromoteWithoutBurn(r, first_try) ==
    IF r.streak = 0 \/ first_try
    THEN [r EXCEPT !.correct = IF r.streak = 0 THEN @ ELSE @ + 1,
                   !.streak = @ + 1]
    ELSE r

\* the promotion of answered_correctly, lines 414-420
Promote(r, first_try) ==
    IF r.streak = 0
    THEN [r EXCEPT !.streak = @ + 1]
    ELSE IF first_try
    THEN [r EXCEPT !.correct = @ + 1,
                   !.streak = @ + 1,
                   !.burned = @ \/ (r.streak + 1 >= BurnedStreak)]
    ELSE r

\* _round_last_studied_date and _round_last_studied_up on the date d: the same
\* arithmetic as _round_next_review_date
_round_last_studied_date(d) == _round_next_review_date(d)

_round_last_studied_up(d) == _round_next_review_date(d)

\* round_times: _round_review_time_up(), then _round_last_studied_up()
round_times(r) ==
    IF r.streak \in DOMAIN SRS_TIMES
    THEN [r EXCEPT !.next_review_date = _round_next_review_date(@),
                   !.last_studied = _round_last_studied_up(_round_last_studied_date(@))]
    ELSE r

\* bring_review_out_of_vacation on a record whose last_studied is set
bring_review_out_of_vacation(r, duration) ==
    LET r1 == [r EXCEPT !.last_studied = @ + duration] IN
    IF r1.streak \in DOMAIN SRS_TIMES
    THEN round_times([r1 EXCEPT !.next_review_date =
                         r1.last_studied + HourLen * SRS_TIMES[r1.streak]])
    ELSE [r1 EXCEPT !.next_review_date = Null]

\* the vacation lengths tried
Durations == {TickLen, HourLen}

\* the call last made on the record: its name, its argument, the streak it found
\* and the time it was made
OpRecord(name, first_try, r, t) ==
    [name |-> name, first_try |-> first_try, streak |-> r.streak, at |-> t]

(* ---------------------------------------------------------------------- *)
(* Reconciliation against remote snapshots.                                *)
(* ---------------------------------------------------------------------- *)
Stamps == 1..MaxStamp
Kanas == {"ka", "ki"}

\* the vocabulary subjects the remote can answer with, in two editions of the
\* subject's text and any non-empty set of readings: non-primary meanings and
\* auxiliary meanings are already joined with ","
VocabularySnapshots ==
    {[data_updated_at |-> t, level |-> IF ed THEN 1 ELSE MaxLevel,
      meaning |-> IF ed THEN "m1" ELSE "m2",
      alternate |-> IF ed THEN "" ELSE "alt", auxiliary |-> "",
      readings |-> ks,
      parts_of_speech |-> IF ed THEN {"noun"} ELSE {"noun", "verb"}] :
        t \in Stamps, ed \in BOOLEAN, ks \in SUBSET Kanas \ {{}}}

\* editions of one subject that differ in their readings, over three kanas; the
\* subject moves up a level with each edition
ReadingKanas == Kanas \cup {"ku"}
ReadingSnapshots ==
    {[data_updated_at |-> t, level |-> t, meaning |-> "m1",
      alternate |-> "", auxiliary |-> "", readings |-> ks,
      parts_of_speech |-> {"noun"}] :
        t \in Stamps, ks \in SUBSET ReadingKanas \ {{}}}

\* the assignments the remote can answer with: in progress or burned
AssignmentSnapshots ==
    {[data_updated_at |-> t, srs_stage |-> IF b THEN BurnedStreak ELSE 1,
      burned_at |-> IF b THEN 0 ELSE Null] : t \in Stamps, b \in BOOLEAN}

\* the study materials the remote can answer with; meaning_synonyms may be None
StudyMaterialSnapshots ==
    {[data_updated_at |-> t, meaning_note |-> IF syn = {} THEN "" ELSE "note",
      reading_note |-> "", has_synonyms |-> has, meaning_synonyms |-> syn] :
        t \in Stamps, has \in BOOLEAN, syn \in {{}, {"syn"}}}

\* assignment.srs_stage_name of the remote client
srs_stage_name(stage) == IF stage >= BurnedStreak THEN "Burned" ELSE "Apprentice"

\* Vocabulary.is_out_of_date
is_out_of_date(v, s) ==
    v.wk_last_modified = Null \/ s.data_updated_at > v.wk_last_modified

\* the fields Vocabulary.reconcile assigns on the object
reconcile(v, s) ==
    [v EXCEPT !.wk_last_modified = s.data_updated_at,
              !.level = s.level,
              !.meaning = s.meaning,
              !.alternate_meanings = s.alternate,
              !.auxiliary_meanings_whitelist = s.auxiliary]

\* what save() writes of a Vocabulary: alternate_meanings is no column
VocabularyRow(v) ==
    [wk_last_modified |-> v.wk_last_modified, level |-> v.level,
     meaning |-> v.meaning,
     auxiliary_meanings_whitelist |-> v.auxiliary_meanings_whitelist]

\* the readings replaced wholesale: every local row goes
_delete_all_readings(rs, s) == {}

\* _delete_stale_readings_based_on
_delete_stale_readings_based_on(rs, s) == {r \in rs : r.kana \in s.readings}

\* the kanas _add_new_readings_based_on creates rows for
NewKanas(rs, s) == s.readings \ {r.kana : r \in rs}

\* the ids given to new rows, in the order of the snapshot
KanaRank(k) == IF k = "ka" THEN 0 ELSE IF k = "ki" THEN 1 ELSE 2
ReadingIdOf(k, ks, first) ==
    first + Cardinality({j \in ks : KanaRank(j) < KanaRank(k)})

\* _add_new_readings_based_on: the rows take the level of the snapshot
_add_new_readings_based_on(rs, s, first) ==
    rs \cup {[id |-> ReadingIdOf(k, NewKanas(rs, s), first),
              kana |-> k, level |-> s.level] : k \in NewKanas(rs, s)}

\* UserSpecific.is_assignment_out_of_date
is_assignment_out_of_date(r, a) ==
    r.wk_assignment_last_modified = Null
        \/ r.wk_assignment_last_modified < a.data_updated_at

\* reconcile_assignment with the stored timestamp left as it was
reconcile_assignment_without_stamp(r, a) ==
    [r EXCEPT !.wanikani_srs = srs_stage_name(a.srs_stage),
              !.wanikani_srs_numeric = a.srs_stage,
              !.wanikani_burned = (a.burned_at # Null)]

\* reconcile_assignment taking the local tier and burned flag from the remote too
reconcile_assignment_with_progress(r, a) ==
    [r EXCEPT !.wanikani_srs = srs_stage_name(a.srs_stage),
              !.wanikani_srs_numeric = a.srs_stage,
              !.wanikani_burned = (a.burned_at # Null),
              !.wk_assignment_last_modified = a.data_updated_at,
              !.streak = a.srs_stage,
              !.burned = (a.burned_at # Null)]

\* UserSpecific.reconcile_assignment, up to its save()
reconcile_assignment(r, a) ==
    [r EXCEPT !.wanikani_srs = srs_stage_name(a.srs_stage),
              !.wanikani_srs_numeric = a.srs_stage,
              !.wanikani_burned = (a.burned_at # Null),
              !.wk_assignment_last_modified = a.data_updated_at]

\* UserSpecific.is_study_material_out_of_date
is_study_material_out_of_date(r, m) ==
    r.wk_study_materials_last_modified = Null
        \/ r.wk_study_materials_last_modified < m.data_updated_at

\* UserSpecific.reconcile_study_material, the fields of the object
reconcile_study_material(r, m) ==
    [r EXCEPT !.meaning_note = m.meaning_note,
              !.reading_note = m.reading_note,
              !.wk_study_materials_last_modified = m.data_updated_at]

\* UserSpecific._add_meaning_synonyms on the MeaningSynonym rows
_add_meaning_synonyms(rows, m) ==
    IF m.has_synonyms THEN m.meaning_synonyms ELSE rows

\* a Vocabulary loaded before the remote stamps were kept
OldVocabulary ==
    [wk_last_modified |-> Null, level |-> 1, meaning |-> "m1",
     alternate_meanings |-> "", auxiliary_meanings_whitelist |-> ""]

\* the snapshot handed to the last reconciliation, and whether it was handed to
\* the one before too
NoSnapshot == [kind |-> "none", s |-> [data_updated_at |-> 0], again |-> FALSE]

Handed(kind, s) ==
    [kind |-> kind, s |-> s, again |-> (snap.kind = kind /\ snap.s = s)]

\* the Reading rows and part-of-speech links the vocabulary starts with
OldReadings == {[id |-> 1, kana |-> "ka", level |-> 1]}
OldParts == {"noun"}

\* the processes that call Vocabulary.reconcile on the same vocabulary, and a call
\* not made yet
Reconcilers == {"r1", "r2"}
NoCall ==
    [pc |-> "idle", obj |-> OldVocabulary, cur |-> {},
     s |-> [data_updated_at |-> 0, level |-> 0, meaning |-> "", alternate |-> "",
            auxiliary |-> "", readings |-> {}, parts_of_speech |-> {}]]

InitRemoteMirror ==
    /\ voc = OldVocabulary
    /\ vocRow = VocabularyRow(OldVocabulary)
    /\ readings = OldReadings
    /\ parts = OldParts
    /\ rc = [p \in Reconcilers |-> NoCall]
    /\ synonyms = {}
    /\ nextReading = 2
    /\ writes = 0
    /\ snap = NoSnapshot

InitReview ==
    /\ rec = DefaultUserSpecific(0)
    /\ stored = DefaultUserSpecific(0)
    /\ now = 0
    /\ op = OpRecord("create", FALSE, DefaultUserSpecific(0), 0)
    /\ err = "none"
    /\ InitRemoteMirror

(* ---------------------------------------------------------------------- *)
(* Initial states.                                                         *)
(* ---------------------------------------------------------------------- *)
RowId(u, s) == (IF u = "A" THEN 0 ELSE NumSubjects) + s

InitProfile(lv, f) ==
    [api_valid |-> TRUE, level |-> lv, follow_me |-> f,
     last_wanikani_sync_date |-> 0, join_date |-> 0]

\* the profile settings both users start from: a profile that is not followed
\* keeps whatever level it has stored; a followed one takes the remote's
ProfileScenarios ==
    {[f |-> FALSE, lv |-> l, k |-> k, rl |-> MaxLevel] :
        l \in {NoLevel} \cup LevelSamples, k \in {0} \cup LevelSamples}
    \cup {[f |-> TRUE, lv |-> NoLevel, k |-> k, rl |-> r] :
        k \in {0} \cup LevelSamples, r \in LevelSamples}

\* the remote's assignment list: the first n subjects, in either order
Reverse(s) == [i \in 1..Len(s) |-> s[Len(s) + 1 - i]]
RemoteLists ==
    {[i \in 1..n |-> i] : n \in 0..NumSubjects}
    \cup {Reverse([i \in 1..n |-> i]) : n \in 0..NumSubjects}

\* no syncer has been constructed yet
InitProcs ==
    /\ clock = 0
    /\ pc = [p \in Procs |-> "idle"]
    /\ puser = [p \in Procs |-> "A"]
    /\ pfull = [p \in Procs |-> FALSE]
    /\ mem = [p \in Procs |-> InitProfile(NoLevel, FALSE)]
    /\ levels = [p \in Procs |-> [filtered |-> FALSE, lv |-> {}]]
    /\ batch = [p \in Procs |-> <<>>]
    /\ idx = [p \in Procs |-> 0]
    /\ new_review_count = [p \in Procs |-> 0]
    /\ calls = [p \in Procs |-> <<>>]
    /\ outcome = [p \in Procs |-> "none"]
    /\ ret = [p \in Procs |-> NoResult]
    /\ exc = [p \in Procs |-> "none"]
    /\ created = [p \in Procs |-> {}]
    /\ startReviews = [p \in Procs |-> {}]
    /\ rejectedAt = [p \in Procs |-> "none"]
    /\ dupAt = [p \in Procs |-> 0]
    /\ missAt = [p \in Procs |-> 0]
    /\ raced = [p \in Procs |-> FALSE]
    /\ qs = [p \in Procs |-> {}]
    /\ follows = [p \in Procs |-> FALSE]

InitCommon ==
    /\ vocabulary = Subjects \ {NumSubjects}
    /\ \E sc \in ProfileScenarios :
           /\ profile = [u \in Users |-> InitProfile(sc.lv, sc.f)]
           /\ unlocked = [u \in Users |-> 1..sc.k]
           /\ remoteLevel = sc.rl
    /\ remote \in RemoteLists
    /\ remoteStudy \in {{}, Subjects}
    /\ InitProcs
    /\ InitReview

\* a store that honours unique_together: at most one row per pair
Init ==
    /\ InitCommon
    /\ \E who \in SUBSET Users :
           reviews = {OldReview(RowId(u, s), u, s) : u \in who, s \in vocabulary}
    /\ nextId = 2 * NumSubjects + 1

\* a store holding rows older than the constraint: user A has two rows for
\* every local vocabulary, user B has one or none
InitLegacy ==
    /\ InitCommon
    /\ \E who \in SUBSET {"B"} :
           reviews =
               {OldReview(RowId(u, s), u, s) : u \in who \cup {"A"}, s \in vocabulary}
               \cup {OldReview(2 * NumSubjects + s, "A", s) : s \in vocabulary}
    /\ nextId = 3 * NumSubjects + 1

(* ---------------------------------------------------------------------- *)
(* sync_with_wk                                                            *)
(* ---------------------------------------------------------------------- *)
Call(kind, filtered, lv, ids) ==
    [kind |-> kind, filtered |-> filtered, lv |-> lv, ids |-> ids]

\* the pass ends: a value is returned to the caller or an exception leaves it
Finish(p, how, value, e) ==
    /\ pc' = [pc EXCEPT ![p] = "done"]
    /\ outcome' = [outcome EXCEPT ![p] = how]
    /\ ret' = [ret EXCEPT ![p] = value]
    /\ exc' = [exc EXCEPT ![p] = e]

\* sync_recent_unlocked_vocab_with_wk_v2 returns what the processing returned
SyncRecentCount(n) == n

\* new_review_count = process(...); new_review_count += new_review_count
SyncUnlockedCount(n) == n + n

\* "return 0, 0" at the end of sync_recent_unlocked_vocab_with_wk_v2
RecentFallThrough == PyTuple(<<0, 0>>)

\* "return profile_sync_succeeded, 0, 0" of sync_with_wk
ProfileFailedResult == PyResult(FALSE, <<PyInt(0), PyInt(0)>>)

\* the except clauses with the profile marked invalid in memory only, never saved
ExceptWithoutSave(p, e) ==
    /\ mem' = [mem EXCEPT ![p].api_valid = (e # Invalid) /\ @]
    /\ UNCHANGED profile
    /\ IF e # Invalid /\ pfull[p]
       THEN Finish(p, "raised", NoResult, e)
       ELSE Finish(p, "returned",
                   IF e = Invalid /\ pfull[p] THEN PyResult(TRUE, <<PyInt(0)>>)
                   ELSE PyResult(TRUE, <<RecentFallThrough>>), "none")

\* the except clauses around the vocabulary sync, for an exception e raised
\* inside the try block
Except(p, e) ==
    IF e = Invalid
    THEN /\ mem' = [mem EXCEPT ![p].api_valid = FALSE]
         /\ profile' = [profile EXCEPT ![puser[p]] = [mem[p] EXCEPT !.api_valid = FALSE]]
         /\ Finish(p, "returned",
                   IF pfull[p] THEN PyResult(TRUE, <<PyInt(0)>>)
                   ELSE PyResult(TRUE, <<RecentFallThrough>>), "none")
    ELSE /\ UNCHANGED <<mem, profile>>
         /\ IF pfull[p]
            THEN Finish(p, "raised", NoResult, e)
            ELSE Finish(p, "returned", PyResult(TRUE, <<RecentFallThrough>>), "none")

\* sync_unlocked_vocab_with_wk_v2 entered with no level guard at all
SyncUnlockedNoGuard(unl) == TRUE

\* "if self.profile.unlocked_levels_list():" of sync_unlocked_vocab_with_wk_v2
SyncUnlockedGuard(unl) == unl # {}

\* a scheduler task constructs the syncer for one profile and enters sync_with_wk;
\* the tasks are interchangeable and First names the one that starts first
StartPass(p) ==
    /\ pc[p] = "idle"
    /\ p # First => pc[First] # "idle"
    /\ \E u \in Users, full \in BOOLEAN :
        /\ puser' = [puser EXCEPT ![p] = u]
        /\ pfull' = [pfull EXCEPT ![p] = full]
        /\ mem' = [mem EXCEPT ![p] = profile[u]]
        /\ follows' = [follows EXCEPT ![p] =
               \E q \in Procs \ {p} :
                   /\ pc[q] = "done" /\ outcome[q] = "returned"
                   /\ rejectedAt[q] = "none"
                   /\ puser[q] = u /\ pfull[q] = full]
    /\ pc' = [pc EXCEPT ![p] = "profile"]
    /\ clock' = clock + 1
    /\ startReviews' = [startReviews EXCEPT ![p] = reviews]
    /\ UNCHANGED <<dbVars, envVars, levels, batch, idx, new_review_count, calls,
                   outcome, ret, exc, created, rejectedAt, dupAt, missAt, raced, qs,
                   recVars>>

\* sync_user_profile_with_wk, user_information() raising InvalidWanikaniApiKeyException
ProfileRejected(p) ==
    /\ pc[p] = "profile"
    /\ calls' = [calls EXCEPT ![p] = Append(@, Call("user_information", FALSE, {}, {}))]
    /\ mem' = [mem EXCEPT ![p].api_valid = FALSE]
    /\ profile' = [profile EXCEPT ![puser[p]] = [mem[p] EXCEPT !.api_valid = FALSE]]
    /\ rejectedAt' = [rejectedAt EXCEPT ![p] = "profile"]
    /\ Finish(p, "returned", ProfileFailedResult, "none")
    /\ UNCHANGED <<unlocked, reviews, nextId, vocabulary, envVars, clock, puser, pfull,
                   levels, batch, idx, new_review_count,
                   created, startReviews, dupAt, missAt, raced, qs, follows,
                   recVars>>

\* sync_user_profile_with_wk, user_information() answering
ProfileSynced(p) ==
    LET u == puser[p]
        m1 == [mem[p] EXCEPT !.join_date = 1,
                             !.last_wanikani_sync_date = clock,
                             !.api_valid = TRUE]
        m2 == IF m1.follow_me THEN [m1 EXCEPT !.level = remoteLevel] ELSE m1
    IN  /\ pc[p] = "profile"
        /\ calls' = [calls EXCEPT ![p] = Append(@, Call("user_information", FALSE, {}, {}))]
        /\ unlocked' = IF m1.follow_me
                       THEN [unlocked EXCEPT ![u] = @ \cup {remoteLevel}]
                       ELSE unlocked
        /\ mem' = [mem EXCEPT ![p] = m2]
        /\ profile' = [profile EXCEPT ![u] = m2]
        /\ pc' = [pc EXCEPT ![p] = "vocab"]
        /\ UNCHANGED <<reviews, nextId, vocabulary, envVars, clock, puser, pfull,
                       levels, batch, idx, new_review_count, outcome, ret, exc,
                       histVars,
                   recVars>>

\* the head of sync_recent_unlocked_vocab_with_wk_v2 (full_sync false) or of
\* sync_unlocked_vocab_with_wk_v2 (full_sync true), up to the remote call
BeginVocab(p) ==
    LET u == puser[p] IN
    /\ pc[p] = "vocab"
    /\ IF pfull[p]
       THEN IF SyncUnlockedGuard(unlocked[u])
            THEN /\ levels' = [levels EXCEPT ![p] = [filtered |-> FALSE, lv |-> {}]]
                 /\ pc' = [pc EXCEPT ![p] = "fetch"]
                 /\ UNCHANGED <<outcome, ret, exc>>
            ELSE /\ Finish(p, "returned", PyResult(TRUE, <<PyInt(0)>>), "none")
                 /\ UNCHANGED levels
       ELSE IF unlocked[u] = {}
            THEN /\ Finish(p, "returned", PyResult(TRUE, <<RecentFallThrough>>), "none")
                 /\ UNCHANGED levels
            ELSE IF mem[p].level = NoLevel
            THEN /\ Finish(p, "raised", NoResult, TypeError)
                 /\ UNCHANGED levels
            ELSE IF RecentLevels(mem[p].level, unlocked[u]) = {}
            THEN /\ Finish(p, "returned", PyResult(TRUE, <<RecentFallThrough>>), "none")
                 /\ UNCHANGED levels
            ELSE /\ levels' = [levels EXCEPT ![p] =
                        [filtered |-> TRUE, lv |-> RecentLevels(mem[p].level, unlocked[u])]]
                 /\ pc' = [pc EXCEPT ![p] = "fetch"]
                 /\ UNCHANGED <<outcome, ret, exc>>
    /\ UNCHANGED <<dbVars, envVars, clock, puser, pfull, mem, batch, idx,
                   new_review_count, calls, histVars,
                   recVars>>

\* client.assignments(...) answering
FetchAssignments(p) ==
    /\ pc[p] = "fetch"
    /\ calls' = [calls EXCEPT ![p] =
           Append(@, Call("assignments", levels[p].filtered, levels[p].lv, {}))]
    /\ batch' = [batch EXCEPT ![p] = AssignmentsFor(levels[p].filtered, levels[p].lv)]
    /\ idx' = [idx EXCEPT ![p] = 1]
    /\ new_review_count' = [new_review_count EXCEPT ![p] = 0]
    /\ pc' = [pc EXCEPT ![p] = "iter"]
    /\ UNCHANGED <<dbVars, envVars, clock, puser, pfull, mem, levels,
                   outcome, ret, exc, histVars,
                   recVars>>

\* client.assignments(...) raising InvalidWanikaniApiKeyException
FetchRejected(p) ==
    /\ pc[p] = "fetch"
    /\ calls' = [calls EXCEPT ![p] =
           Append(@, Call("assignments", levels[p].filtered, levels[p].lv, {}))]
    /\ rejectedAt' = [rejectedAt EXCEPT ![p] = "assignments"]
    /\ Except(p, Invalid)
    /\ UNCHANGED <<unlocked, reviews, nextId, vocabulary, envVars, clock, puser, pfull,
                   levels, batch, idx, new_review_count,
                   created, startReviews, dupAt, missAt, raced, qs, follows,
                   recVars>>

\* "for assignment in assignments": the next page raising
\* InvalidWanikaniApiKeyException while the sequence is drained
PageRejected(p) ==
    /\ pc[p] = "iter"
    /\ idx[p] <= Len(batch[p])
    /\ calls' = [calls EXCEPT ![p] = Append(@, Call("assignments_page", FALSE, {}, {}))]
    /\ rejectedAt' = [rejectedAt EXCEPT ![p] = "page"]
    /\ Except(p, Invalid)
    /\ UNCHANGED <<unlocked, reviews, nextId, vocabulary, envVars, clock, puser, pfull,
                   levels, batch, idx, new_review_count,
                   created, startReviews, dupAt, missAt, raced, qs, follows,
                   recVars>>

\* the loop of process_vocabulary_response_for_user_v2 is exhausted: the count goes
\* back through sync_*_vocab_with_wk_v2 to sync_with_wk, which returns the pair
EndOfBatch(p) ==
    /\ pc[p] = "iter"
    /\ idx[p] > Len(batch[p])
    /\ Finish(p, "returned",
              PyResult(TRUE, <<PyInt(IF pfull[p]
                                     THEN SyncUnlockedCount(new_review_count[p])
                                     ELSE SyncRecentCount(new_review_count[p]))>>),
              "none")
    /\ UNCHANGED <<dbVars, envVars, clock, puser, pfull, mem, levels, batch, idx,
                   new_review_count, calls, histVars,
                   recVars>>

\* lines 112-114 after process_single_item_from_wanikani_v2 returned (review, created)
\* with review of the given kind
AfterItem(p, kind, wasCreated) ==
    IF CallOn(kind, "save") = "ok"
    THEN /\ new_review_count' = [new_review_count EXCEPT ![p] = IF wasCreated THEN @ + 1 ELSE @]
         /\ idx' = [idx EXCEPT ![p] = @ + 1]
         /\ pc' = [pc EXCEPT ![p] = "iter"]
         /\ UNCHANGED <<mem, profile, outcome, ret, exc>>
    ELSE /\ Except(p, CallOn(kind, "save"))
         /\ UNCHANGED <<new_review_count, idx>>

\* lines 129-131 of process_single_item_from_wanikani_v2 on the review that
\* associate_vocab_to_user returned, then lines 112-114
AfterAssociate(p, kind, wasCreated) ==
    IF CallOn(kind, "out_of_date") = "ok"
    THEN AfterItem(p, kind, wasCreated)
    ELSE /\ Except(p, CallOn(kind, "out_of_date"))
         /\ UNCHANGED <<new_review_count, idx>>

\* process_single_item_from_wanikani_v2 up to the lookup half of get_or_create:
\* the vocabulary lookup, then associate_vocab_to_user's get()
ProcessSingleItem(p) ==
    LET u == puser[p]
        s == batch[p][idx[p]]
        n == Cardinality(ReviewsOf(u, s))
    IN  /\ pc[p] = "iter"
        /\ idx[p] <= Len(batch[p])
        /\ mem[p].follow_me
        /\ IF s \notin vocabulary
           THEN \* Vocabulary.DoesNotExist: return None, False
                /\ missAt' = [missAt EXCEPT ![p] = idx[p]]
                /\ AfterItem(p, "None", FALSE)
                /\ UNCHANGED dupAt
           ELSE IF n = 0
           THEN \* DoesNotExist inside get_or_create: the insert follows
                /\ pc' = [pc EXCEPT ![p] = "create"]
                /\ UNCHANGED <<mem, profile, outcome, ret, exc, new_review_count, idx,
                               missAt, dupAt>>
           ELSE IF n = 1
           THEN \* return review, False
                /\ AfterAssociate(p, "UserSpecific", FALSE)
                /\ UNCHANGED <<missAt, dupAt>>
           ELSE \* MultipleObjectsReturned: log every row, return None, None
                /\ dupAt' = [dupAt EXCEPT ![p] = idx[p]]
                /\ AfterAssociate(p, "None", FALSE)
                /\ UNCHANGED missAt
        /\ UNCHANGED <<unlocked, reviews, nextId, vocabulary, envVars, clock, puser, pfull,
                       levels, batch, calls, created, startReviews, rejectedAt,
                       raced, qs, follows,
                   recVars>>

\* the insert half of get_or_create and the rest of associate_vocab_to_user: on an
\* integrity error the row that won is read back and returned with created = False
CreateReview(p) ==
    LET u == puser[p]
        s == batch[p][idx[p]]
    IN  /\ pc[p] = "create"
        /\ IF UniqueViolation(u, s)
           THEN /\ raced' = [raced EXCEPT ![p] = TRUE]
                /\ UNCHANGED <<reviews, nextId, created>>
           ELSE /\ reviews' = reviews \cup {NewReview(nextId, u, s)}
                /\ nextId' = nextId + 1
                /\ created' = [created EXCEPT ![p] = @ \cup {nextId}]
                /\ UNCHANGED raced
        /\ AfterAssociate(p, "UserSpecific", ~UniqueViolation(u, s))
        /\ UNCHANGED <<unlocked, vocabulary, envVars, clock, puser, pfull, levels, batch,
                       calls, startReviews, rejectedAt, dupAt, missAt, qs, follows,
                   recVars>>

\* update_synonyms_for_assignments with client.study_materials(...) answering; the
\* remote answers with the study materials it holds for the subject ids asked for
UpdateSynonyms(p) ==
    LET u == puser[p]
        ids == Range(batch[p])
        materials == ids \cap remoteStudy
    IN  /\ pc[p] = "iter"
        /\ idx[p] <= Len(batch[p])
        /\ ~mem[p].follow_me
        /\ calls' = [calls EXCEPT ![p] = Append(@, Call("study_materials", FALSE, {}, ids))]
        /\ IF materials = {}
           THEN /\ idx' = [idx EXCEPT ![p] = @ + 1]
                /\ UNCHANGED <<qs, mem, profile, pc, outcome, ret, exc>>
           ELSE \E s \in materials :
                /\ qs' = [qs EXCEPT ![p] = {r.id : r \in StudyMaterialQuery(u, s)}]
                /\ Except(p, CallOn("QuerySet", "is_study_material_out_of_date"))
                /\ UNCHANGED idx
        /\ UNCHANGED <<unlocked, reviews, nextId, vocabulary, envVars, clock, puser, pfull,
                       levels, batch, new_review_count, created, startReviews,
                       rejectedAt, dupAt, missAt, raced, follows,
                   recVars>>

\* update_synonyms_for_assignments with client.study_materials(...) raising
\* InvalidWanikaniApiKeyException
StudyRejected(p) ==
    /\ pc[p] = "iter"
    /\ idx[p] <= Len(batch[p])
    /\ ~mem[p].follow_me
    /\ calls' = [calls EXCEPT ![p] =
           Append(@, Call("study_materials", FALSE, {}, Range(batch[p])))]
    /\ rejectedAt' = [rejectedAt EXCEPT ![p] = "study_materials"]
    /\ Except(p, Invalid)
    /\ UNCHANGED <<unlocked, reviews, nextId, vocabulary, envVars, clock, puser, pfull,
                   levels, batch, idx, new_review_count,
                   created, startReviews, dupAt, missAt, raced, qs, follows,
                   recVars>>

Next ==
    \E p \in Procs :
        \/ StartPass(p)
        \/ ProfileRejected(p)
        \/ ProfileSynced(p)
        \/ BeginVocab(p)
        \/ FetchAssignments(p)
        \/ FetchRejected(p)
        \/ PageRejected(p)
        \/ EndOfBatch(p)
        \/ ProcessSingleItem(p)
        \/ CreateReview(p)
        \/ UpdateSynonyms(p)
        \/ StudyRejected(p)

Spec == Init /\ [][Next]_vars

SpecLegacy == InitLegacy /\ [][Next]_vars

(* ---------------------------------------------------------------------- *)
(* The scheduling calls on one review record, with no sync pass running.   *)
(* ---------------------------------------------------------------------- *)
syncVars == <<dbVars, envVars, clock, ctlVars, histVars>>

\* a store with one user's review record and a remote that is never asked
InitSyncQuiet ==
    /\ InitProcs
    /\ vocabulary = Subjects \ {NumSubjects}
    /\ profile = [u \in Users |-> InitProfile(NoLevel, FALSE)]
    /\ unlocked = [u \in Users |-> {}]
    /\ remoteLevel = MaxLevel
    /\ remote = <<>>
    /\ remoteStudy = {}
    /\ reviews = {NewReview(1, "A", 1)}
    /\ nextId = 2

InitSched == InitSyncQuiet /\ InitReview

\* UserSpecific.answered_correctly(first_try)
AnsweredCorrectly(first_try) ==
    LET r1 == Promote(rec, first_try)
        r2 == [r1 EXCEPT !.needs_review = FALSE, !.last_studied = now]
        r3 == set_next_review_time(r2, now)
        r4 == set_criticality(r3)
    IN  /\ rec.correct + rec.incorrect < MaxAnswers
        /\ rec' = r4
        /\ stored' = r4
        /\ op' = OpRecord("answered_correctly", first_try, rec, now)
        /\ err' = CriticalityError(r3)
        /\ UNCHANGED <<now, wkVars, syncVars>>

\* UserSpecific.answered_incorrectly(): save() comes before set_criticality()
AnsweredIncorrectly ==
    LET r1 == [rec EXCEPT !.incorrect = @ + 1,
                          !.streak = Max(0, Demote(@))]
    IN  /\ rec.correct + rec.incorrect < MaxAnswers
        /\ stored' = r1
        /\ rec' = set_criticality(r1)
        /\ op' = OpRecord("answered_incorrectly", FALSE, rec, now)
        /\ err' = CriticalityError(r1)
        /\ UNCHANGED <<now, wkVars, syncVars>>

\* UserSpecific.reset()
Reset ==
    LET r1 == [rec EXCEPT !.streak = 1, !.last_studied = Null,
                          !.next_review_date = now,
                          !.correct = 1, !.incorrect = 0,
                          !.burned = FALSE, !.needs_review = TRUE]
    IN  /\ rec' = r1
        /\ stored' = r1
        /\ op' = OpRecord("reset", FALSE, rec, now)
        /\ err' = "none"
        /\ UNCHANGED <<now, wkVars, syncVars>>

\* UserSpecific.set_next_review_time() called on its own
SetNextReviewTime ==
    /\ rec' = set_next_review_time(rec, now)
    /\ stored' = rec'
    /\ op' = OpRecord("set_next_review_time", FALSE, rec, now)
    /\ err' = "none"
    /\ UNCHANGED <<now, wkVars, syncVars>>

\* UserSpecific.bring_review_out_of_vacation(vacation_duration): None + timedelta
\* raises TypeError before anything is assigned
BringOutOfVacation(duration) ==
    /\ rec.last_studied <= MaxTicks * TickLen
    /\ op' = [name |-> "bring_review_out_of_vacation", first_try |-> FALSE,
              streak |-> rec.streak, at |-> now, duration |-> duration]
    /\ IF rec.last_studied = Null
       THEN /\ err' = TypeError
            /\ UNCHANGED <<rec, stored>>
       ELSE /\ err' = "none"
            /\ rec' = bring_review_out_of_vacation(rec, duration)
            /\ stored' = bring_review_out_of_vacation(rec, duration)
    /\ UNCHANGED <<now, wkVars, syncVars>>

\* timezone.now() moves on between two calls
Tick ==
    /\ now < MaxTicks * TickLen
    /\ now' = now + TickLen
    /\ UNCHANGED <<rec, stored, op, err, wkVars, syncVars>>

SchedNext ==
    \/ \E first_try \in BOOLEAN : AnsweredCorrectly(first_try)
    \/ AnsweredIncorrectly
    \/ Reset
    \/ SetNextReviewTime
    \/ \E duration \in Durations : BringOutOfVacation(duration)
    \/ Tick

SpecSched == InitSched /\ [][SchedNext]_vars

(* ---------------------------------------------------------------------- *)
(* Guarded reconciliation: "if x.is_out_of_date(s): x.reconcile(s)".       *)
(* ---------------------------------------------------------------------- *)
schedVars == <<rec, stored, now, op, err>>

\* Vocabulary.reconcile behind Vocabulary.is_out_of_date
ReconcileVocabulary(s) ==
    LET kept == _delete_stale_readings_based_on(readings, s) IN
    /\ snap' = Handed("vocabulary", s)
    /\ IF is_out_of_date(voc, s)
       THEN /\ voc' = reconcile(voc, s)
            /\ readings' = _add_new_readings_based_on(kept, s, nextReading)
            /\ nextReading' = nextReading + Cardinality(NewKanas(kept, s))
            /\ parts' = s.parts_of_speech
            /\ vocRow' = VocabularyRow(reconcile(voc, s))
            /\ writes' = writes + 1
       ELSE UNCHANGED <<voc, readings, nextReading, parts, vocRow, writes>>
    /\ UNCHANGED <<schedVars, synonyms, rc, syncVars>>

\* UserSpecific.reconcile_assignment behind is_assignment_out_of_date
ReconcileAssignment(a) ==
    /\ snap' = Handed("assignment", a)
    /\ IF is_assignment_out_of_date(rec, a)
       THEN /\ rec' = reconcile_assignment(rec, a)
            /\ stored' = reconcile_assignment(rec, a)
            /\ writes' = writes + 1
       ELSE UNCHANGED <<rec, stored, writes>>
    /\ UNCHANGED <<now, op, err, voc, vocRow, readings, parts, synonyms, nextReading,
                   rc, syncVars>>

\* UserSpecific.reconcile_study_material behind is_study_material_out_of_date
ReconcileStudyMaterial(m) ==
    /\ snap' = Handed("study_material", m)
    /\ IF is_study_material_out_of_date(rec, m)
       THEN /\ rec' = reconcile_study_material(rec, m)
            /\ synonyms' = _add_meaning_synonyms(synonyms, m)
            /\ stored' = reconcile_study_material(rec, m)
            /\ writes' = writes + 1
       ELSE UNCHANGED <<rec, stored, synonyms, writes>>
    /\ UNCHANGED <<now, op, err, voc, vocRow, readings, parts, nextReading,
                   rc, syncVars>>

ReconcileNext ==
    \/ \E s \in VocabularySnapshots : ReconcileVocabulary(s)
    \/ \E a \in AssignmentSnapshots : ReconcileAssignment(a)
    \/ \E m \in StudyMaterialSnapshots : ReconcileStudyMaterial(m)

SpecReconcile == InitSched /\ [][ReconcileNext]_vars

(* ---------------------------------------------------------------------- *)
(* Successive editions of a subject's readings.                            *)
(* ---------------------------------------------------------------------- *)
ReadingsNext == \E s \in ReadingSnapshots : ReconcileVocabulary(s)

SpecReadings == InitSched /\ [][ReadingsNext]_vars

(* ---------------------------------------------------------------------- *)
(* Two Vocabulary.reconcile calls on the same vocabulary, statement by     *)
(* statement: each query runs on its own, nothing spans them.              *)
(* ---------------------------------------------------------------------- *)
\* the Vocabulary object a process gets from the row
LoadedVocabulary(row) ==
    [wk_last_modified |-> row.wk_last_modified, level |-> row.level,
     meaning |-> row.meaning, alternate_meanings |-> "",
     auxiliary_meanings_whitelist |-> row.auxiliary_meanings_whitelist]

\* reconcile(vocabulary) is called: the fields are assigned on the object
CallReconcile(p, s) ==
    /\ rc[p].pc = "idle"
    /\ rc' = [rc EXCEPT ![p] = [pc |-> "delete", s |-> s, cur |-> {},
                                obj |-> reconcile(LoadedVocabulary(vocRow), s)]]
    /\ UNCHANGED <<schedVars, voc, vocRow, readings, parts, synonyms, nextReading,
                   writes, snap, syncVars>>

\* _delete_stale_readings_based_on
DeleteStale(p) ==
    /\ rc[p].pc = "delete"
    /\ readings' = _delete_stale_readings_based_on(readings, rc[p].s)
    /\ rc' = [rc EXCEPT ![p].pc = "read"]
    /\ UNCHANGED <<schedVars, voc, vocRow, parts, synonyms, nextReading, writes,
                   snap, syncVars>>

\* _add_new_readings_based_on, the kanas of self.readings.all()
ReadCurrent(p) ==
    /\ rc[p].pc = "read"
    /\ rc' = [rc EXCEPT ![p].pc = "add", ![p].cur = {r.kana : r \in readings}]
    /\ UNCHANGED <<schedVars, voc, vocRow, readings, parts, synonyms, nextReading,
                   writes, snap, syncVars>>

\* _add_new_readings_based_on, self.readings.add(..., bulk=False): a kana that got
\* a row since the kanas were read breaks unique_together and the call ends there
AddNew(p) ==
    LET ks == rc[p].s.readings \ rc[p].cur IN
    /\ rc[p].pc = "add"
    /\ IF ks \cap {r.kana : r \in readings} # {}
       THEN /\ rc' = [rc EXCEPT ![p].pc = "raised"]
            /\ UNCHANGED <<readings, nextReading>>
       ELSE /\ rc' = [rc EXCEPT ![p].pc = "clear"]
            /\ readings' = readings \cup
                   {[id |-> ReadingIdOf(k, ks, nextReading), kana |-> k,
                     level |-> rc[p].s.level] : k \in ks}
            /\ nextReading' = nextReading + Cardinality(ks)
    /\ UNCHANGED <<schedVars, voc, vocRow, parts, synonyms, writes, snap, syncVars>>

\* _reconcile_parts_of_speech_based_on: clear()
ClearParts(p) ==
    /\ rc[p].pc = "clear"
    /\ parts' = {}
    /\ rc' = [rc EXCEPT ![p].pc = "parts"]
    /\ UNCHANGED <<schedVars, voc, vocRow, readings, synonyms, nextReading, writes,
                   snap, syncVars>>

\* _reconcile_parts_of_speech_based_on: get_or_create for each part
AddParts(p) ==
    /\ rc[p].pc = "parts"
    /\ parts' = parts \cup rc[p].s.parts_of_speech
    /\ rc' = [rc EXCEPT ![p].pc = "save"]
    /\ UNCHANGED <<schedVars, voc, vocRow, readings, synonyms, nextReading, writes,
                   snap, syncVars>>

\* self.save()
SaveVocabulary(p) ==
    /\ rc[p].pc = "save"
    /\ vocRow' = VocabularyRow(rc[p].obj)
    /\ writes' = writes + 1
    /\ rc' = [rc EXCEPT ![p].pc = "done"]
    /\ UNCHANGED <<schedVars, voc, readings, parts, synonyms, nextReading, snap,
                   syncVars>>

ConcurrentNext ==
    \E p \in Reconcilers :
        \/ \E s \in VocabularySnapshots : CallReconcile(p, s)
        \/ DeleteStale(p)
        \/ ReadCurrent(p)
        \/ AddNew(p)
        \/ ClearParts(p)
        \/ AddParts(p)
        \/ SaveVocabulary(p)

SpecConcurrent == InitSched /\ [][ConcurrentNext]_vars

(* ---------------------------------------------------------------------- *)
(* Assignment reconciliation between the answers given to a review.        *)
(* ---------------------------------------------------------------------- *)
AssignmentNext ==
    \/ \E first_try \in BOOLEAN : AnsweredCorrectly(first_try)
    \/ AnsweredIncorrectly
    \/ \E a \in AssignmentSnapshots : ReconcileAssignment(a)

SpecAssignment == InitSched /\ [][AssignmentNext]_vars

(* ---------------------------------------------------------------------- *)
(* Properties.                                                             *)
(* ---------------------------------------------------------------------- *)
HasCall(p, kind) == \E i \in 1..Len(calls[p]) : calls[p][i].kind = kind

Alone(p) == \A q \in Procs \ {p} : pc[q] = "idle"

VocabRejections == {"assignments", "page", "study_materials"}

\* C1: when the profile fetch raises InvalidCredential the pass returns exactly the
\* pair (false, 0), api_valid = false is persisted, no assignment or study-material
\* fetch is issued and no review record is created or modified.
C1_ProfileRejectedReturnsPair ==
    \A p \in Procs : rejectedAt[p] = "profile" =>
        /\ pc[p] = "done"
        /\ outcome[p] = "returned"
        /\ ret[p] = PyResult(FALSE, <<PyInt(0)>>)
        /\ ~HasCall(p, "assignments")
        /\ ~HasCall(p, "study_materials")
        /\ created[p] = {}
        /\ Alone(p) => (~profile[puser[p]].api_valid /\ reviews = startReviews[p])

\* C2: sync_with_wk never ends by propagating an exception to its caller.
C2_NothingRaised == \A p \in Procs : outcome[p] # "raised"

\* C3: every pass whose profile sync succeeds and that returns, returns the pair
\* (true, n) with n one integer, the number of review records it created.
C3_ReturnsCreatedCount ==
    \A p \in Procs :
        (pc[p] = "done" /\ outcome[p] = "returned" /\ rejectedAt[p] # "profile")
            => ret[p] = PyResult(TRUE, <<PyInt(Cardinality(created[p]))>>)

\* C4: an assignment whose vocabulary is absent locally does not abort the pass: the
\* loop still runs over every remaining assignment and the pass returns the number of
\* review records created for the others.
C4_BadItemSkipped ==
    \A p \in Procs :
        (pc[p] = "done" /\ missAt[p] # 0 /\ rejectedAt[p] = "none")
            => /\ outcome[p] = "returned"
               /\ idx[p] > Len(batch[p])
               /\ ret[p] = PyResult(TRUE, <<PyInt(Cardinality(created[p]))>>)

\* C5: when several review records exist for the (user, vocabulary) of an assignment,
\* none of them is changed, the pass goes on over the remaining assignments and
\* returns the count of the records created for the others.
C5_DuplicatesSkipped ==
    \A p \in Procs :
        (pc[p] = "done" /\ dupAt[p] # 0 /\ rejectedAt[p] = "none")
            => /\ outcome[p] = "returned"
               /\ idx[p] > Len(batch[p])
               /\ ret[p] = PyResult(TRUE, <<PyInt(Cardinality(created[p]))>>)
               /\ ReviewsOf(puser[p], batch[p][dupAt[p]])
                    = {r \in startReviews[p] :
                          r.user = puser[p] /\ r.vocabulary = batch[p][dupAt[p]]}

\* C6: the step in which the remote client raises InvalidCredential during vocabulary
\* sync (assignment fetch, page iteration, study-material fetch) persists
\* api_valid = false and ends the pass, in either mode, and a pass that has ended
\* issues no further remote call.
C6_RejectionEndsPass ==
    [][\A p \in Procs :
          /\ (rejectedAt[p] = "none" /\ rejectedAt'[p] \in VocabRejections)
                => /\ ~profile'[puser[p]].api_valid
                   /\ pc'[p] = "done"
                   /\ calls'[p][Len(calls'[p])].kind
                        \in {"assignments", "assignments_page", "study_materials"}
          /\ pc[p] = "done" => (pc'[p] = "done" /\ calls'[p] = calls[p])]_vars

\* both modes were rejected during vocabulary sync, one at the study-material fetch
C6_Witness ==
    \E p, q \in Procs :
        /\ pc[p] = "done" /\ pc[q] = "done"
        /\ pfull[p] /\ ~pfull[q]
        /\ rejectedAt[p] \in VocabRejections
        /\ rejectedAt[q] = "study_materials"
        /\ ~profile[puser[q]].api_valid

\* C7: a pass run right after a completed pass of the same profile and mode, with the
\* remote unchanged, creates no review record, leaves every review record as it was
\* and returns (true, 0).
C7_SecondPassIdempotent ==
    \A p \in Procs :
        (pc[p] = "done" /\ follows[p] /\ rejectedAt[p] = "none")
            => /\ created[p] = {}
               /\ reviews = startReviews[p]
               /\ outcome[p] = "returned"
               /\ ret[p] = PyResult(TRUE, <<PyInt(0)>>)

\* C8: there is never more than one review record for a (user, vocabulary) pair,
\* whatever the interleaving of the passes.
C8_OneReviewPerPair ==
    \A u \in Users, s \in Subjects : Cardinality(ReviewsOf(u, s)) <= 1

\* two passes of one profile raced on the same assignment: one inserted the row, the
\* other hit the constraint
C8_Witness ==
    \E p, q \in Procs :
        /\ p # q /\ puser[p] = puser[q]
        /\ raced[p] /\ created[q] # {}
        /\ pc[p] = "done" /\ pc[q] = "done"

C10_RecentLevelsOnly ==
    \A p \in Procs : (~pfull[p] /\ mem[p].level # NoLevel) =>
        /\ \A i \in 1..Len(calls[p]) : calls[p][i].kind = "assignments" =>
               /\ calls[p][i].filtered
               /\ calls[p][i].lv # {}
               /\ calls[p][i].lv \subseteq (mem[p].level - 2)..mem[p].level
               /\ calls[p][i].lv \subseteq unlocked[puser[p]]
        /\ (pc[p] = "done" /\ rejectedAt[p] = "none" /\ exc[p] = "none"
               /\ Len(calls[p]) = 1)
             => ret[p] = PyResult(TRUE, <<PyInt(0)>>)

\* C11 as stated: every full pass whose profile sync succeeded issues the assignment
\* fetch, without a level filter, whatever the level and the unlocked-level set are.
C11_FullAlwaysFetches ==
    \A p \in Procs :
        (pc[p] = "done" /\ pfull[p] /\ rejectedAt[p] # "profile")
            => \E i \in 1..Len(calls[p]) :
                   /\ calls[p][i].kind = "assignments"
                   /\ ~calls[p][i].filtered

\* C11: a full pass whose profile sync succeeded issues the assignment fetch exactly
\* when the unlocked-level set is not empty, whatever the level is; the fetch carries
\* no level filter; with an empty unlocked-level set the pass makes no vocabulary call
\* and returns (true, 0).
C11_FullFetchUnfiltered ==
    \A p \in Procs : pfull[p] =>
        /\ \A i \in 1..Len(calls[p]) : calls[p][i].kind = "assignments" =>
               (~calls[p][i].filtered /\ calls[p][i].lv = {})
        /\ (pc[p] = "done" /\ rejectedAt[p] # "profile") =>
               /\ HasCall(p, "assignments") <=> unlocked[puser[p]] # {}
               /\ unlocked[puser[p]] = {} =>
                      /\ Len(calls[p]) = 1
                      /\ outcome[p] = "returned"
                      /\ ret[p] = PyResult(TRUE, <<PyInt(0)>>)

\* a full pass of a profile that has unlocked levels but no level of its own fetched
\* every assignment the remote holds
C11_Witness ==
    \E p \in Procs :
        /\ pc[p] = "done" /\ pfull[p] /\ rejectedAt[p] = "none"
        /\ mem[p].level = NoLevel /\ unlocked[puser[p]] # {}
        /\ HasCall(p, "assignments")
        /\ Len(remote) = NumSubjects /\ batch[p] = remote

\* C12: on the follow path a pass that meets an assignment of a local vocabulary
\* without a review record creates exactly one, seeded as due, and counts it; a
\* record that exists is not re-seeded and not counted; either way the record is
\* reconciled when it is out of date for the assignment, and the loop goes on.
C12_FollowPathCreatesAndReconciles ==
    \A p \in Procs :
        (mem[p].follow_me /\ pc[p] \in {"iter", "done"} /\ rejectedAt[p] = "none")
            => /\ new_review_count[p] = Cardinality(created[p])
               /\ \A r \in reviews : r.id \in created[p] =>
                      /\ r.needs_review
                      /\ r.wk_assignment_last_modified # 0
               /\ \A r \in startReviews[p] :
                      (r.user = puser[p] /\ Alone(p)) =>
                          \E t \in reviews :
                              /\ t.id = r.id
                              /\ t.needs_review = r.needs_review
                              /\ t.next_review_date = r.next_review_date
                              /\ t.streak = r.streak
               /\ exc[p] = "none"

\* C13: a pass of a profile that opted out of automatic tracking and that reached the
\* study-material fetch creates no review record, leaves the review records as they
\* were and reports (true, 0).
C13_OptOutMetadataOnly ==
    \A p \in Procs :
        (pc[p] = "done" /\ ~mem[p].follow_me /\ rejectedAt[p] = "none"
            /\ HasCall(p, "study_materials"))
            => /\ created[p] = {}
               /\ Alone(p) => reviews = startReviews[p]
               /\ outcome[p] = "returned"
               /\ ret[p] = PyResult(TRUE, <<PyInt(0)>>)

\* C14: right after a guarded reconciliation with a snapshot the entity is not out of
\* date for that snapshot, for vocabulary, assignment and study material alike, and
\* a guarded reconciliation with the snapshot of the one before writes nothing and
\* leaves the entity, its rows and its related rows as they were.
C14_ReconcileIdempotent ==
    /\ [](/\ snap.kind = "vocabulary" => ~is_out_of_date(voc, snap.s)
          /\ snap.kind = "assignment" => ~is_assignment_out_of_date(rec, snap.s)
          /\ snap.kind = "study_material"
                => ~is_study_material_out_of_date(rec, snap.s))
    /\ [][snap'.again
            => UNCHANGED <<rec, stored, synonyms, voc, vocRow, readings, parts,
                           nextReading, writes>>]_vars

\* each kind has been reconciled, the study material twice in a row with a snapshot
\* that replaced notes and synonyms
C14_Witness ==
    /\ snap.kind = "study_material" /\ snap.again
    /\ rec.wk_study_materials_last_modified = snap.s.data_updated_at
    /\ rec.meaning_note = "note" /\ synonyms = {"syn"}
    /\ rec.wk_assignment_last_modified # Null
    /\ voc.wk_last_modified # Null /\ Cardinality(readings) = 2
    /\ writes = 3

(* ---------------------------------------------------------------------- *)
(* Properties of the scheduling calls.                                     *)
(* ---------------------------------------------------------------------- *)
\* the step is a call of the named method on the record
IsCall(name) == op'.name = name /\ (op' # op \/ rec' # rec)

Answers == {"answered_correctly", "answered_incorrectly"}

\* C15 as stated: streak is never negative, and every answer that raises the streak
\* is a correct answer given on the first attempt.
C15_StreakGrowsOnFirstTryOnly ==
    /\ [](rec.streak >= 0)
    /\ [][(op'.name \in Answers /\ rec'.streak > rec.streak)
             => (op'.name = "answered_correctly" /\ op'.first_try)]_vars

\* C15: streak is never negative, and every answer that raises the streak is a
\* correct answer, given on the first attempt or on a record at streak 0, and
\* raises it by exactly one.
C15_StreakGrowsOnCorrectOnly ==
    /\ [](rec.streak >= 0)
    /\ [][(op'.name \in Answers /\ rec'.streak > rec.streak)
             => /\ op'.name = "answered_correctly"
                /\ op'.first_try \/ rec.streak = 0
                /\ rec'.streak = rec.streak + 1]_vars

\* a lesson was completed by a correct answer that was not a first attempt
C15_Witness ==
    /\ op.name = "answered_correctly" /\ ~op.first_try
    /\ op.streak = 0 /\ rec.streak = 1

\* C16 as stated: an incorrect answer on a record at streak 1 leaves it at streak 0.
C16_IncorrectAtOneGivesZero ==
    (op.name = "answered_incorrectly" /\ op.streak = 1) => rec.streak = 0

\* C16: an incorrect answer on a record at streak 1 leaves it at streak 1, and no
\* incorrect answer takes a record that has left the lesson tier back to streak 0.
C16_IncorrectAtOneStays ==
    op.name = "answered_incorrectly" =>
        /\ op.streak = 1 => rec.streak = 1
        /\ op.streak >= 1 => rec.streak >= 1

\* an incorrect answer was given at streak 1
C16_Witness ==
    /\ op.name = "answered_incorrectly" /\ op.streak = 1
    /\ rec.incorrect >= 1 /\ rec.streak = 1

\* C17: an incorrect answer adds exactly one to the incorrect counter; from streak 7
\* the streak becomes 5, from any other streak above 1 it drops by one, and it is
\* never below 0.
C17_IncorrectDemotes ==
    [][IsCall("answered_incorrectly")
         => /\ rec'.incorrect = rec.incorrect + 1
            /\ rec.streak = 7 => rec'.streak = 5
            /\ (rec.streak > 1 /\ rec.streak # 7) => rec'.streak = rec.streak - 1
            /\ rec'.streak >= 0
            /\ rec'.correct = rec.correct]_vars

\* an incorrect answer was given at streak 7 and left the record at streak 5
C17_Witness ==
    /\ op.name = "answered_incorrectly" /\ op.streak = 7
    /\ rec.streak = 5 /\ rec.incorrect = 1

\* C18: a correct answer on a record at streak 0 makes the streak 1 whatever
\* first_try is; on a record at streak 1 or more it adds one to correct and to streak
\* when first_try holds and leaves both when it does not; burned is set when the
\* raised streak reaches the burned tier; afterwards needs_review is false and
\* last_studied is the time of the call.
C18_CorrectPromotes ==
    [][IsCall("answered_correctly")
         => /\ rec.streak = 0 => rec'.streak = 1
            /\ (rec.streak >= 1 /\ op'.first_try)
                  => /\ rec'.correct = rec.correct + 1
                     /\ rec'.streak = rec.streak + 1
            /\ (rec.streak >= 1 /\ ~op'.first_try)
                  => /\ rec'.correct = rec.correct
                     /\ rec'.streak = rec.streak
            /\ (rec'.streak > rec.streak /\ rec'.streak >= BurnedStreak)
                  => rec'.burned
            /\ ~rec'.needs_review
            /\ rec'.last_studied = now]_vars

\* a first-try correct answer took the record from the tier below burned to burned
C18_Witness ==
    /\ op.name = "answered_correctly" /\ op.first_try
    /\ op.streak = BurnedStreak - 1
    /\ rec.streak = BurnedStreak /\ rec.burned
    /\ ~rec.needs_review /\ rec.last_studied = op.at

\* the interval of the record's streak, in minutes
IntervalOf(r) == HourLen * SRS_TIMES[r.streak]

\* d is on a boundary of the rounding granularity, at most one granule after t
RoundedUpFrom(d, t) ==
    /\ (d % DayLen) % REVIEW_ROUNDING_TIME = 0
    /\ d >= t
    /\ d - t <= REVIEW_ROUNDING_TIME

C20_CriticalIsDerived ==
    op.name \in Answers \cup {"reset"}
        => (rec.critical <=>
              /\ rec.correct + rec.incorrect >= MINIMUM_ATTEMPT_COUNT_FOR_CRITICALITY
              /\ rec.incorrect * CRITICALITY_THRESHOLD[2]
                    >= CRITICALITY_THRESHOLD[1] * (rec.correct + rec.incorrect))

\* the attempts counted on a record
Attempts(r) == r.correct + r.incorrect

\* C21: is_critical gives false, and raises no division by zero, for correct = 0 and
\* incorrect = 0, and gives false for every pair of counters whose sum is below the
\* minimum attempt count, whatever the ratio; no answer ends in ZeroDivisionError
\* and the flag an answer leaves on such a record is false.
C21_CriticalityGuard ==
    /\ err # ZeroDivisionError
    /\ \A c, i \in 0..MaxAnswers :
           c + i < MINIMUM_ATTEMPT_COUNT_FOR_CRITICALITY
               => is_critical_result([rec EXCEPT !.correct = c, !.incorrect = i])
                    = "False"
    /\ (op.name \in Answers
           /\ Attempts(rec) < MINIMUM_ATTEMPT_COUNT_FOR_CRITICALITY)
          => ~rec.critical

\* only incorrect answers were given, one fewer than the minimum attempt count
C21_Witness ==
    /\ op.name = "answered_incorrectly"
    /\ rec.correct = 0
    /\ rec.incorrect = MINIMUM_ATTEMPT_COUNT_FOR_CRITICALITY - 1
    /\ ~rec.critical /\ err = "none"

\* C24: a completed bring_review_out_of_vacation leaves last_studied at the old
\* last_studied plus the duration, rounded up once, and next_review_date at the old
\* next_review_date plus the duration, rounded up once, or at null when the streak
\* has no interval.
C24_VacationShiftsAndRounds ==
    [][(IsCall("bring_review_out_of_vacation") /\ err' = "none")
         => /\ RoundedUpFrom(rec'.last_studied, rec.last_studied + op'.duration)
            /\ IF rec.streak \in DOMAIN SRS_TIMES
               THEN rec.next_review_date # Null
                      => RoundedUpFrom(rec'.next_review_date,
                                       rec.next_review_date + op'.duration)
               ELSE rec'.next_review_date = Null]_vars

\* C26: the burned flag of the record is true exactly when its streak is at or
\* above the burned tier.
C26_BurnedIffAtThreshold == rec.burned <=> rec.streak >= BurnedStreak

\* C27: when answered_correctly, answered_incorrectly, reset or
\* set_next_review_time has returned, the row of the record equals the object.
C27_StoredEqualsMemory ==
    (op.name \in Answers \cup {"reset", "set_next_review_time"} /\ err = "none")
        => stored = rec

\* C28: bring_review_out_of_vacation never ends in an exception.
C28_VacationNeverRaises ==
    op.name = "bring_review_out_of_vacation" => err = "none"

\* the step is a reconcile_assignment call that ran
ReconciledAssignment == snap'.kind = "assignment" /\ writes' = writes + 1

\* the scheduling fields of a record
Progress(r) ==
    <<r.streak, r.correct, r.incorrect, r.burned, r.needs_review, r.last_studied,
      r.next_review_date>>

\* the fields mirrored from the remote assignment
Mirrored(r) ==
    <<r.wanikani_srs, r.wanikani_srs_numeric, r.wanikani_burned,
      r.wk_assignment_last_modified>>

\* C22: a reconcile_assignment call changes no field of the record other than the
\* remote stage name, the remote numeric stage, wanikani_burned and the stored
\* assignment timestamp; streak, correct, incorrect, burned, needs_review,
\* last_studied and next_review_date are the same before and after, on the object
\* and in its row; the mirrored fields are those of the snapshot, and
\* wanikani_burned is true afterwards exactly when the snapshot has a burn time.
C22_AssignmentMirrorsOnly ==
    [][ReconciledAssignment =>
        /\ rec' = [rec EXCEPT !.wanikani_srs = rec'.wanikani_srs,
                              !.wanikani_srs_numeric = rec'.wanikani_srs_numeric,
                              !.wanikani_burned = rec'.wanikani_burned,
                              !.wk_assignment_last_modified =
                                  rec'.wk_assignment_last_modified]
        /\ Progress(rec') = Progress(rec)
        /\ Progress(stored') = Progress(stored)
        /\ Mirrored(stored') = Mirrored(rec')
        /\ rec'.wanikani_srs = srs_stage_name(snap'.s.srs_stage)
        /\ rec'.wanikani_srs_numeric = snap'.s.srs_stage
        /\ rec'.wk_assignment_last_modified = snap'.s.data_updated_at
        /\ rec'.wanikani_burned <=> snap'.s.burned_at # Null]_vars

\* a record answered incorrectly four times, then reconciled with a burned
\* assignment: the row holds the criticality only the reconciliation saved
C22_Witness ==
    /\ snap.kind = "assignment" /\ snap.s.burned_at # Null
    /\ op.name = "answered_incorrectly"
    /\ rec.incorrect = MINIMUM_ATTEMPT_COUNT_FOR_CRITICALITY /\ rec.correct = 0
    /\ stored.critical
    /\ rec.wanikani_burned /\ ~rec.burned
    /\ rec.wanikani_srs_numeric = BurnedStreak /\ rec.streak = 0

\* the step is a Vocabulary.reconcile call that ran
ReconciledVocabulary == snap'.kind = "vocabulary" /\ writes' = writes + 1

\* the kanas of a set of Reading rows
KanasOf(rs) == {r.kana : r \in rs}

\* C23: in a Vocabulary.reconcile call the Reading rows deleted are exactly the local
\* rows whose kana is not among the snapshot's readings, the rows created are one
\* new row for each kana of the snapshot that no local row had, the rows whose kana
\* is on both sides stay the very rows they were, and afterwards the kanas of the
\* local rows are the kanas of the snapshot.
C23_ReadingsBySymmetricDifference ==
    [][ReconciledVocabulary =>
        /\ readings \ readings' = {r \in readings : r.kana \notin snap'.s.readings}
        /\ KanasOf(readings' \ readings) = snap'.s.readings \ KanasOf(readings)
        /\ Cardinality(readings' \ readings)
              = Cardinality(snap'.s.readings \ KanasOf(readings))
        /\ \A r \in readings' \ readings : \A q \in readings : q.id # r.id
        /\ readings \cap readings'
              = {r \in readings : r.kana \in snap'.s.readings}
        /\ KanasOf(readings') = snap'.s.readings
        /\ Cardinality(readings') = Cardinality(snap'.s.readings)]_vars

\* the second edition dropped "ki" and brought "ku": the row of "ki", the second
\* row made, is gone, the row of "ku" is the third made and has the level of this
\* edition, and the row of "ka" is the one the vocabulary started with
C23_Witness ==
    /\ snap.kind = "vocabulary" /\ snap.s.readings = {"ka", "ku"}
    /\ writes = 2 /\ nextReading = 4
    /\ voc.wk_last_modified = snap.s.data_updated_at
    /\ readings = {[id |-> 1, kana |-> "ka", level |-> 1],
                   [id |-> 3, kana |-> "ku", level |-> snap.s.level]}
    /\ snap.s.level = 2

\* what is stored of a vocabulary: its row, its readings by kana and level, its parts
StoredVocabulary(row, rs, ps) ==
    [row |-> row, readings |-> {<<r.kana, r.level>> : r \in rs}, parts |-> ps]

\* what is stored after a whole reconcile(s) call on what was stored before
AfterReconcile(row, rs, ps, s) ==
    [row |-> VocabularyRow(reconcile(LoadedVocabulary(row), s)),
     rs |-> _add_new_readings_based_on(_delete_stale_readings_based_on(rs, s), s,
                                       nextReading),
     ps |-> s.parts_of_speech]

\* what is stored after reconcile(s) and then reconcile(t), from the start
AfterBoth(s, t) ==
    LET a == AfterReconcile(VocabularyRow(OldVocabulary), OldReadings, OldParts, s)
        b == AfterReconcile(a.row, a.rs, a.ps, t)
    IN  StoredVocabulary(b.row, b.rs, b.ps)

\* C25: when two reconcile calls on the same vocabulary have both ended, what is
\* stored of the vocabulary, its row, its readings and its parts, is what the two
\* calls leave when one runs wholly after the other, in one of the two orders, and
\* no kana has two Reading rows.
C25_ConcurrentAsSequential ==
    (\A p \in Reconcilers : rc[p].pc \in {"done", "raised"})
        => /\ StoredVocabulary(vocRow, readings, parts)
                \in {AfterBoth(rc["r1"].s, rc["r2"].s),
                     AfterBoth(rc["r2"].s, rc["r1"].s)}
           /\ Cardinality(readings) = Cardinality({r.kana : r \in readings})

====
